---- MODULE Spec2Model ----
(***************************************************************************)
(* libtor: the encoding of typed Tor configuration flags into tokens       *)
(* (Expand::expand, Expand::expand_cli, log_expand) and the builder that   *)
(* hands the flattened argument vector to the daemon (Tor::flag,           *)
(* Tor::start, Tor::start_background).                                     *)
(*                                                                         *)
(* A Rust String is a sequence of one-character strings; NUL is the zero   *)
(* byte.                                                                   *)
(***************************************************************************)
EXTENDS Integers, Sequences, FiniteSets, TLC

VARIABLES
    flags,      \* Tor.flags of the builder made by Tor::new
    runs,       \* one record per call of start / start_background
    probe,      \* the flag handed to expand / expand_cli on its own
    parts,      \* the Vec<String> that expand(probe) returned
    cli,        \* the String that expand_cli(probe) returned
    bool_in,    \* the native bool handed to TorBool::from
    bool_out,   \* the rendering of TorBool::from(bool_in)
    ppc         \* position of the caller that probes the encoding

vars == <<flags, runs, probe, parts, cli, bool_in, bool_out, ppc>>

---------------------------------------------------------------------------
\* Bounds of the model.

\* longest directive sequence of the builder
MaxFlags == 2
\* number of start / start_background calls
MaxRuns == 2
\* most (domain-list, level) groups of a LogExpanded
MaxGroups == 2
\* most (enabled, domain) entries of one group
MaxDomains == 2

---------------------------------------------------------------------------
\* Strings.

NUL == "NUL"
SP == " "
QUOTE == "\""

RECURSIVE Join(_, _)
\* [String]::join(sep)
Join(ss, sep) ==
    IF ss = <<>> THEN <<>>
    ELSE IF Len(ss) = 1 THEN ss[1]
    ELSE ss[1] \o sep \o Join(Tail(ss), sep)

\* char::to_lowercase on the characters the Debug renderings use
LowerChar(c) ==
    CASE c = "N" -> "n" [] c = "I" -> "i" [] c = "D" -> "d"
      [] c = "H" -> "h" [] c = "M" -> "m" [] c = "S" -> "s"
      [] OTHER -> c

\* str::to_lowercase
to_lowercase(s) == [i \in 1..Len(s) |-> LowerChar(s[i])]

\* the decimal digit of d, 0 <= d <= 9
Digit(d) ==
    CASE d = 0 -> "0" [] d = 1 -> "1" [] d = 2 -> "2" [] d = 3 -> "3"
      [] d = 4 -> "4" [] d = 5 -> "5" [] d = 6 -> "6" [] d = 7 -> "7"
      [] d = 8 -> "8" [] OTHER -> "9"

RECURSIVE DisplayInt(_)
\* Display of an unsigned integer: its decimal digits
DisplayInt(n) ==
    IF n < 10 THEN <<Digit(n)>> ELSE DisplayInt(n \div 10) \o <<Digit(n % 10)>>

RECURSIVE Words(_, _)
\* the maximal runs of non-space characters of s, in order; cur is the run
\* being read
Words(s, cur) ==
    IF s = <<>> THEN (IF cur = <<>> THEN <<>> ELSE <<cur>>)
    ELSE IF Head(s) = SP
         THEN (IF cur = <<>> THEN <<>> ELSE <<cur>>) \o Words(Tail(s), <<>>)
         ELSE Words(Tail(s), Append(cur, Head(s)))

\* splitting a string on whitespace
SplitWhitespace(s) == Words(s, <<>>)

---------------------------------------------------------------------------
\* Primitive display types.

TorBoolValues == {"True", "False", "Enabled", "Disabled"}

\* a Display for TorBool that renders only True as 1
DisplayTorBoolTrueOnly(b) ==
    LET val == IF b = "True" THEN 1 ELSE 0
    IN  DisplayInt(val)

\* impl Display for TorBool
DisplayTorBool(b) ==
    LET val == IF b \in {"True", "Enabled"} THEN 1 ELSE 0
    IN  DisplayInt(val)

\* impl From<bool> for TorBool
TorBoolFrom(other) == IF other THEN "True" ELSE "False"

\* {:?} of a unit variant of a derive(Debug) enum: its tag
DebugTag(tag) ==
    CASE tag = "Notice" -> <<"N", "o", "t", "i", "c", "e">>
      [] tag = "Info" -> <<"I", "n", "f", "o">>
      [] tag = "Debug" -> <<"D", "e", "b", "u", "g">>
      [] tag = "Handshake" -> <<"H", "a", "n", "d", "s", "h", "a", "k", "e">>
      [] tag = "Net" -> <<"N", "e", "t">>
      [] tag = "Mm" -> <<"M", "m">>
      [] tag = "Stdout" -> <<"S", "t", "d", "o", "u", "t">>
      [] tag = "MBits" -> <<"M", "B", "i", "t", "s">>
      [] OTHER -> <<>>

\* display_like_debug!(SizeUnit)
DisplaySizeUnit(u) == DebugTag(u)

---------------------------------------------------------------------------
\* TorFlag.  A flag is a record: its variant tag and the fields the variant
\* carries (the others keep the blank value).

NoFlag ==
    [tag |-> "None", s |-> <<>>, b |-> "False", n |-> 0, unit |-> "MBits",
     level |-> "Notice", dest |-> "NoDest", groups |-> <<>>]

ControlPortAuto == [NoFlag EXCEPT !.tag = "ControlPortAuto"]
SocksPortAuto == [NoFlag EXCEPT !.tag = "SocksPortAuto"]
ConfigFile(s) == [NoFlag EXCEPT !.tag = "ConfigFile", !.s = s]
DataDirectory(s) == [NoFlag EXCEPT !.tag = "DataDirectory", !.s = s]
DisableNetwork(b) == [NoFlag EXCEPT !.tag = "DisableNetwork", !.b = b]
BandwidthRate(n, u) == [NoFlag EXCEPT !.tag = "BandwidthRate", !.n = n, !.unit = u]
Custom(s) == [NoFlag EXCEPT !.tag = "Custom", !.s = s]
Log(level) == [NoFlag EXCEPT !.tag = "Log", !.level = level]
LogTo(level, dest) == [NoFlag EXCEPT !.tag = "LogTo", !.level = level, !.dest = dest]
LogExpanded(groups, dest) ==
    [NoFlag EXCEPT !.tag = "LogExpanded", !.groups = groups, !.dest = dest]

LogTags == {"Log", "LogTo", "LogExpanded"}
UnitTags == {"ControlPortAuto", "SocksPortAuto"}

\* the variant's tag text, the name the default rule starts the token list with
TagText(tag) ==
    CASE tag = "DataDirectory" ->
           <<"D", "a", "t", "a", "D", "i", "r", "e", "c", "t", "o", "r", "y">>
      [] tag = "DisableNetwork" ->
           <<"D", "i", "s", "a", "b", "l", "e", "N", "e", "t", "w", "o", "r", "k">>
      [] tag = "BandwidthRate" ->
           <<"B", "a", "n", "d", "w", "i", "d", "t", "h", "R", "a", "t", "e">>
      [] OTHER -> <<>>

\* format!(pattern, fields) for the variants that carry #[expand_to("...")]
FormatPattern(flag) ==
    CASE flag.tag = "ControlPortAuto" ->
           <<"C", "o", "n", "t", "r", "o", "l", "P", "o", "r", "t", " ", "a", "u", "t", "o">>
      [] flag.tag = "SocksPortAuto" ->
           <<"S", "o", "c", "k", "s", "P", "o", "r", "t", " ", "a", "u", "t", "o">>
      [] flag.tag = "ConfigFile" -> <<"-", "f", " ">> \o flag.s
      [] flag.tag = "Custom" -> flag.s
      [] OTHER -> <<>>

\* the rendering of each field of a default-rule variant, in declaration order
FieldRenderings(flag) ==
    CASE flag.tag = "DataDirectory" -> <<flag.s>>
      [] flag.tag = "DisableNetwork" -> <<DisplayTorBool(flag.b)>>
      [] flag.tag = "BandwidthRate" -> <<DisplayInt(flag.n), DisplaySizeUnit(flag.unit)>>
      [] OTHER -> <<>>

\* the default rule: the canonical name, then one token per field
DefaultRule(flag) == <<TagText(flag.tag)>> \o FieldRenderings(flag)

\* the explicit-pattern rule: the formatted pattern, split on whitespace
PatternRule(flag) == SplitWhitespace(FormatPattern(flag))

\* a log_expand that keeps the case of the Debug renderings
log_expand_keep_case(flag) ==
    LET dest == IF flag.tag = "Log" THEN "NoDest" ELSE flag.dest
        levels == IF flag.tag = "LogExpanded" THEN flag.groups
                  ELSE <<[domains |-> <<>>, level |-> flag.level]>>
        group_str(g) ==
            LET c == Join([i \in 1..Len(g.domains) |->
                             (IF g.domains[i].enabled THEN <<>> ELSE <<"~">>)
                             \o DebugTag(g.domains[i].domain)], <<",">>)
            IN  (IF c # <<>> THEN <<"[">> \o c \o <<"]">> ELSE c) \o DebugTag(g.level)
    IN  <<<<"L", "o", "g">>,
          Join([i \in 1..Len(levels) |-> group_str(levels[i])], <<SP>>)
          \o (IF dest = "NoDest" THEN <<>> ELSE <<SP>> \o DebugTag(dest))>>

\* fn log_expand(flag: &TorFlag) -> Vec<String>
log_expand(flag) ==
    LET dest == IF flag.tag = "Log" THEN "NoDest" ELSE flag.dest
        levels == IF flag.tag = "LogExpanded" THEN flag.groups
                  ELSE <<[domains |-> <<>>, level |-> flag.level]>>
        domain_str(d) ==
            LET enabled_char == IF d.enabled THEN <<>> ELSE <<"~">>
            IN  enabled_char \o DebugTag(d.domain)
        group_str(g) ==
            LET joined == Join([i \in 1..Len(g.domains) |-> domain_str(g.domains[i])],
                               <<",">>)
                concat_str == IF joined # <<>> THEN <<"[">> \o joined \o <<"]">>
                              ELSE joined
            IN  to_lowercase(concat_str \o DebugTag(g.level))
        levels_str == Join([i \in 1..Len(levels) |-> group_str(levels[i])], <<SP>>)
        dest_str == IF dest = "NoDest" THEN <<>>
                    ELSE to_lowercase(<<SP>> \o DebugTag(dest))
    IN  <<<<"L", "o", "g">>, levels_str \o dest_str>>

\* Expand::expand for TorFlag, as derive(Expand) generates it
expand(flag) ==
    IF flag.tag \in LogTags THEN log_expand(flag)
    ELSE IF flag.tag \in {"ControlPortAuto", "SocksPortAuto", "ConfigFile", "Custom"}
         THEN PatternRule(flag)
         ELSE DefaultRule(flag)

\* a collapse that joins the tokens and quotes nothing
collapse_never_quote(parts0) == Join(parts0, <<SP>>)

\* a collapse that quotes the argument body of every token list
collapse_always_quote(parts0) ==
    LET args == Join(SubSeq(parts0, 2, Len(parts0)), <<SP>>)
    IN  Join(<<parts0[1]>> \o <<<<QUOTE>> \o args \o <<QUOTE>>>>, <<SP>>)

\* a collapse that quotes each token after the first on its own
collapse_quote_each(parts0) ==
    Join(<<parts0[1]>> \o [i \in 1..(Len(parts0) - 1) |->
                            <<QUOTE>> \o parts0[i + 1] \o <<QUOTE>>], <<SP>>)

\* the body of Expand::expand_cli, on the token list that expand returned
collapse(parts0) ==
    LET args == Join(SubSeq(parts0, 2, Len(parts0)), <<SP>>)
        parts1 == IF Len(parts0) > 1
                  THEN <<parts0[1]>> \o <<<<QUOTE>> \o args \o <<QUOTE>>>>
                  ELSE parts0
    IN  Join(parts1, <<SP>>)

\* Expand::expand_cli
expand_cli(flag) == collapse(expand(flag))

---------------------------------------------------------------------------
\* The boundary to the daemon: CString and the pointers tor_sys receives.

HasNul(s) == \E i \in 1..Len(s) : s[i] = NUL

RECURSIVE UntilNul(_)
\* the bytes before the first NUL: what a reader of a C string pointer sees
UntilNul(bytes) ==
    IF bytes = <<>> \/ Head(bytes) = NUL THEN <<>>
    ELSE <<Head(bytes)>> \o UntilNul(Tail(bytes))

\* a CString::new that cuts the string at its first NUL instead of failing
CStringNewTruncating(s) == [ok |-> TRUE, bytes |-> UntilNul(s) \o <<NUL>>]

\* CString::new(s): an error when s holds a NUL, else the bytes of s and the
\* terminating NUL
CStringNew(s) ==
    IF HasNul(s) THEN [ok |-> FALSE, bytes |-> <<>>]
    ELSE [ok |-> TRUE, bytes |-> s \o <<NUL>>]

\* the string the daemon reads through CString::as_ptr
CStrRead(bytes) == UntilNul(bytes)

---------------------------------------------------------------------------
\* Tor: the builder and its runs.

TOR == <<"t", "o", "r">>

\* Vec::push at the front
push_front(v, x) == <<x>> \o v

\* Vec::push
push(v, x) == Append(v, x)

RECURSIVE flatten(_)
\* Iterator::flatten over the token lists, collected
flatten(lists) ==
    IF lists = <<>> THEN <<>> ELSE Head(lists) \o flatten(Tail(lists))

\* an argument vector made of the quoted single-line forms
start_argv_cli(fl) == <<TOR>> \o [i \in 1..Len(fl) |-> expand_cli(fl[i])]

\* the argv that Tor::start builds from self.flags
start_argv(fl) == <<TOR>> \o flatten([i \in 1..Len(fl) |-> expand(fl[i])])

\* a background run that reads the builder it was started from
SelfFlagsShared(run, builder) == builder

\* the flags that a run's self refers to: the clone moved into the thread for
\* start_background, the builder itself for start
SelfFlags(run, builder) == IF run.kind = "bg" THEN run.cloned ELSE builder

\* the record of one call: at_call remembers the builder's sequence at the call
NewRun(kind, fl) ==
    [kind |-> kind, cloned |-> IF kind = "bg" THEN fl ELSE <<>>,
     at_call |-> fl, pc |-> "called", argv |-> <<>>, cargv |-> <<>>,
     cmdline_set |-> FALSE, cmdline |-> <<>>, ran |-> FALSE, daemon_argv |-> <<>>]

\* a call of start holds &self until it returns
Borrowed == \E i \in 1..Len(runs) :
                runs[i].kind = "fg" /\ runs[i].pc \notin {"returned", "panicked"}

\* the flags a caller hands to Tor::flag
BuilderFlags ==
    {ControlPortAuto, DataDirectory(<<"a", " ", "b">>), Custom(<<"a", NUL>>),
     Custom(<<>>)}

EncUnchanged == UNCHANGED <<probe, parts, cli, bool_in, bool_out, ppc>>

\* Tor::flag
Flag(d) ==
    /\ Len(flags) < MaxFlags
    /\ ~Borrowed
    /\ flags' = push(flags, d)
    /\ UNCHANGED runs
    /\ EncUnchanged

\* Tor::start is called
Start ==
    /\ Len(runs) < MaxRuns
    /\ ~Borrowed
    /\ runs' = Append(runs, NewRun("fg", flags))
    /\ UNCHANGED flags
    /\ EncUnchanged

\* Tor::start_background: clone self, spawn the thread
StartBackground ==
    /\ Len(runs) < MaxRuns
    /\ ~Borrowed
    /\ runs' = Append(runs, NewRun("bg", flags))
    /\ UNCHANGED flags
    /\ EncUnchanged

\* start, lines 340-351: the configuration object and the argv of Strings
BuildArgv(i) ==
    /\ runs[i].pc = "called"
    /\ runs' = [runs EXCEPT ![i].argv = start_argv(SelfFlags(runs[i], flags)),
                            ![i].pc = "argv"]
    /\ UNCHANGED flags
    /\ EncUnchanged

\* start, line 353: every String to a CString, unwrap panics on an error
ToCString(i) ==
    /\ runs[i].pc = "argv"
    /\ LET cs == [k \in 1..Len(runs[i].argv) |-> CStringNew(runs[i].argv[k])]
       IN  IF \E k \in 1..Len(cs) : ~cs[k].ok
           THEN runs' = [runs EXCEPT ![i].pc = "panicked"]
           ELSE runs' = [runs EXCEPT ![i].cargv = [k \in 1..Len(cs) |-> cs[k].bytes],
                                     ![i].pc = "cstring"]
    /\ UNCHANGED flags
    /\ EncUnchanged

\* start, lines 354-359: the pointers go to tor_main_configuration_set_command_line
SetCommandLine(i) ==
    /\ runs[i].pc = "cstring"
    /\ runs' = [runs EXCEPT
                  ![i].cmdline = [k \in 1..Len(runs[i].cargv) |-> CStrRead(runs[i].cargv[k])],
                  ![i].cmdline_set = TRUE,
                  ![i].pc = "set"]
    /\ UNCHANGED flags
    /\ EncUnchanged

\* start, lines 361-365: tor_run_main, free the configuration, return Ok
RunMain(i) ==
    /\ runs[i].pc = "set"
    /\ runs' = [runs EXCEPT ![i].daemon_argv = runs[i].cmdline,
                            ![i].ran = TRUE,
                            ![i].pc = "returned"]
    /\ UNCHANGED flags
    /\ EncUnchanged

\* Tor::new, and nothing probed
Init ==
    /\ flags = <<>>
    /\ runs = <<>>
    /\ probe = NoFlag
    /\ parts = <<>>
    /\ cli = <<>>
    /\ bool_in = FALSE
    /\ bool_out = <<>>
    /\ ppc = "idle"

Next ==
    \/ \E d \in BuilderFlags : Flag(d)
    \/ Start
    \/ StartBackground
    \/ \E i \in 1..Len(runs) : BuildArgv(i)
    \/ \E i \in 1..Len(runs) : ToCString(i)
    \/ \E i \in 1..Len(runs) : SetCommandLine(i)
    \/ \E i \in 1..Len(runs) : RunMain(i)

Spec == Init /\ [][Next]_vars

---------------------------------------------------------------------------
\* The encoding on its own: a caller expands one flag, renders its
\* single-line form and converts one native bool.

SeqsUpTo(S, n) == UNION {[1..k -> S] : k \in 0..n}

ProbeStrings == {<<>>, <<"a">>, <<"a", " ", "b">>, <<SP>>, <<"a", NUL>>}
LogLevels == {"Debug", "Info", "Notice"}
LogDestinations == {"Stdout"}
DomainEntries ==
    {[enabled |-> TRUE, domain |-> "Handshake"],
     [enabled |-> FALSE, domain |-> "Net"]}
LogGroups ==
    {[domains |-> ds, level |-> l] : ds \in SeqsUpTo(DomainEntries, MaxDomains),
                                     l \in LogLevels}

ProbeFlags ==
    {ControlPortAuto, SocksPortAuto}
    \cup {ConfigFile(s) : s \in ProbeStrings}
    \cup {DataDirectory(s) : s \in ProbeStrings}
    \cup {Custom(s) : s \in ProbeStrings}
    \cup {DisableNetwork(b) : b \in TorBoolValues}
    \cup {BandwidthRate(n, "MBits") : n \in {0, 256}}
    \cup {Log(l) : l \in LogLevels}
    \cup {LogTo(l, d) : l \in LogLevels, d \in LogDestinations}
    \cup {LogExpanded(gs, d) : gs \in SeqsUpTo(LogGroups, MaxGroups),
                               d \in LogDestinations}

BuilderUnchanged == UNCHANGED <<flags, runs>>

InitEnc ==
    /\ flags = <<>>
    /\ runs = <<>>
    /\ probe \in ProbeFlags
    /\ parts = <<>>
    /\ cli = <<>>
    /\ bool_in = FALSE
    /\ bool_out = <<>>
    /\ ppc = "start"

\* probe.expand()
CallExpand ==
    /\ ppc = "start"
    /\ parts' = expand(probe)
    /\ ppc' = "expanded"
    /\ UNCHANGED <<probe, cli, bool_in, bool_out>>
    /\ BuilderUnchanged

\* probe.expand_cli()
CallExpandCli ==
    /\ ppc = "expanded"
    /\ cli' = expand_cli(probe)
    /\ ppc' = "cli"
    /\ UNCHANGED <<probe, parts, bool_in, bool_out>>
    /\ BuilderUnchanged

\* TorBool::from(b).to_string()
CallFrom(b) ==
    /\ ppc = "cli"
    /\ bool_in' = b
    /\ bool_out' = DisplayTorBool(TorBoolFrom(b))
    /\ ppc' = "done"
    /\ UNCHANGED <<probe, parts, cli>>
    /\ BuilderUnchanged

NextEnc ==
    \/ CallExpand
    \/ CallExpandCli
    \/ \E b \in BOOLEAN : CallFrom(b)

SpecEnc == InitEnc /\ [][NextEnc]_vars

---------------------------------------------------------------------------
\* The expand_to(test = ...) cases of the source: expand_cli of the flag on
\* the left is the string on the right.

ExpandToTests ==
    /\ expand_cli(ConfigFile(<<"f", "i", "l", "e", "n", "a", "m", "e">>))
         = <<"-", "f", " ", "\"", "f", "i", "l", "e", "n", "a", "m", "e", "\"">>
    /\ expand_cli(BandwidthRate(256, "MBits"))
         = <<"B", "a", "n", "d", "w", "i", "d", "t", "h", "R", "a", "t", "e", " ", "\"", "2", "5", "6", " ", "M", "B", "i", "t", "s", "\"">>
    /\ expand_cli(DisableNetwork(TorBoolFrom(TRUE)))
         = <<"D", "i", "s", "a", "b", "l", "e", "N", "e", "t", "w", "o", "r", "k", " ", "\"", "1", "\"">>
    /\ expand_cli(Log("Notice"))
         = <<"L", "o", "g", " ", "\"", "n", "o", "t", "i", "c", "e", "\"">>
    /\ expand_cli(LogTo("Notice", "Stdout"))
         = <<"L", "o", "g", " ", "\"", "n", "o", "t", "i", "c", "e", " ", "s", "t", "d", "o", "u", "t", "\"">>
    /\ expand_cli(LogExpanded(
           <<[domains |-> <<[enabled |-> TRUE, domain |-> "Handshake"]>>,
              level |-> "Debug"],
             [domains |-> <<[enabled |-> FALSE, domain |-> "Net"],
                            [enabled |-> FALSE, domain |-> "Mm"]>>,
              level |-> "Info"],
             [domains |-> <<>>, level |-> "Notice"]>>, "Stdout"))
         = <<"L", "o", "g", " ", "\"", "[", "h", "a", "n", "d", "s", "h", "a", "k", "e", "]", "d", "e", "b", "u", "g", " ", "[", "~", "n", "e", "t", ",", "~", "m", "m", "]", "i", "n", "f", "o", " ", "n", "o", "t", "i", "c", "e", " ", "s", "t", "d", "o", "u", "t", "\"">>

---------------------------------------------------------------------------
\* Properties of the encoding, checked under SpecEnc.

HasChar(s, c) == \E i \in 1..Len(s) : s[i] = c
Probed == ppc \in {"cli", "done"}
Expanded == ppc \in {"expanded", "cli", "done"}

\* C1: for a token list t1..tn (n >= 1) expand_cli returns t1 when n = 1, and
\* t1, a space, a double quote, t2..tn joined by single spaces and a closing
\* double quote when n > 1.
C1_ExpandCliShape ==
    (Probed /\ Len(parts) >= 1) =>
        cli = IF Len(parts) = 1 THEN parts[1]
              ELSE parts[1] \o <<SP, QUOTE>> \o Join(Tail(parts), <<SP>>) \o <<QUOTE>>

C1_Witness == ppc = "cli" /\ Len(parts) = 3

LowerTagText(tag) ==
    CASE tag = "Notice" -> <<"n", "o", "t", "i", "c", "e">>
      [] tag = "Info" -> <<"i", "n", "f", "o">>
      [] tag = "Debug" -> <<"d", "e", "b", "u", "g">>
      [] tag = "Handshake" -> <<"h", "a", "n", "d", "s", "h", "a", "k", "e">>
      [] tag = "Net" -> <<"n", "e", "t">>
      [] tag = "Mm" -> <<"m", "m">>
      [] tag = "Stdout" -> <<"s", "t", "d", "o", "u", "t">>
      [] OTHER -> <<>>

\* one domain of a group: its lower-cased tag, after ~ when its flag is false
DomainText(d) == (IF d.enabled THEN <<>> ELSE <<"~">>) \o LowerTagText(d.domain)

\* one group: the bracketed comma-joined domains when there are any, then the
\* lower-cased level
GroupText(g) ==
    (IF Len(g.domains) > 0
     THEN <<"[">> \o Join([i \in 1..Len(g.domains) |-> DomainText(g.domains[i])], <<",">>)
          \o <<"]">>
     ELSE <<>>)
    \o LowerTagText(g.level)

\* the groups a log flag stands for
GroupsOf(flag) ==
    IF flag.tag = "LogExpanded" THEN flag.groups
    ELSE <<[domains |-> <<>>, level |-> flag.level]>>

\* C3: for every Log, LogTo and LogExpanded, log_expand returns two tokens: Log,
\* and the groups joined by single spaces followed, when there is a destination,
\* by a space and the lower-cased destination; for every number of groups.
C3_LogExpand ==
    (Expanded /\ probe.tag \in LogTags) =>
        /\ Len(parts) = 2
        /\ parts[1] = <<"L", "o", "g">>
        /\ parts[2] =
             Join([i \in 1..Len(GroupsOf(probe)) |-> GroupText(GroupsOf(probe)[i])], <<SP>>)
             \o (IF probe.tag = "Log" THEN <<>> ELSE <<SP>> \o LowerTagText(probe.dest))

C3_Witness ==
    /\ ppc = "expanded"
    /\ probe.tag = "LogExpanded"
    /\ Len(probe.groups) = 2
    /\ Len(probe.groups[1].domains) = 2
    /\ Len(probe.groups[2].domains) = 0

\* C5 as written: the token list that expand returns is never empty, for every
\* directive, Custom with an empty or all-space body included.
C5_TokenListNeverEmpty == Expanded => Len(parts) >= 1

\* C7: TorBool renders as 1 for True and Enabled and as 0 for False and
\* Disabled, and TorBool::from(b) renders as 1 for true and as 0 for false.
C7_TorBoolDigits ==
    /\ (Expanded /\ probe.tag = "DisableNetwork") =>
          parts[2] = IF probe.b \in {"True", "Enabled"} THEN <<"1">> ELSE <<"0">>
    /\ ppc = "done" => bool_out = IF bool_in THEN <<"1">> ELSE <<"0">>

C7_Witness ==
    ppc = "done" /\ bool_in /\ probe.tag = "DisableNetwork" /\ probe.b = "Enabled"

\* C10 as written: a directive whose single rendered field contains a space
\* (DataDirectory with a value holding a space) is emitted unquoted.
C10_SpacedFieldUnquoted ==
    (Probed /\ probe.tag = "DataDirectory" /\ HasChar(probe.s, SP)) =>
        ~HasChar(cli, QUOTE)

\* C10 amended: quoting triggers strictly on more than one token being produced:
\* a one-token list is emitted as it is, a longer one has its body in double
\* quotes; DataDirectory with a value holding a space produces two tokens and is
\* emitted as DataDirectory, a space, and the value in double quotes.
C10_QuoteIffManyTokens ==
    Probed =>
        /\ Len(parts) = 1 => cli = parts[1]
        /\ Len(parts) > 1 =>
             (cli[Len(parts[1]) + 2] = QUOTE /\ cli[Len(cli)] = QUOTE)
        /\ (probe.tag = "DataDirectory" /\ HasChar(probe.s, SP)) =>
             (Len(parts) = 2
              /\ cli = TagText("DataDirectory") \o <<SP, QUOTE>> \o probe.s \o <<QUOTE>>)

C10_Witness ==
    ppc = "cli" /\ probe = DataDirectory(<<"a", " ", "b">>) /\ HasChar(cli, QUOTE)

---------------------------------------------------------------------------
\* Properties of the builder and its runs, checked under Spec.

RECURSIVE TokenCount(_, _)
\* the number of tokens that the first k directives of fl expand to
TokenCount(fl, k) ==
    IF k = 0 THEN 0 ELSE TokenCount(fl, k - 1) + Len(expand(fl[k]))

IsPrefix(s, u) == Len(s) <= Len(u) /\ SubSeq(u, 1, Len(s)) = s

\* C4: the argument vector that start builds for the directives d1..dk is tor
\* followed by the tokens of expand(d1), ..., expand(dk): its length is 1 plus
\* the sum of the token-list lengths, and every token keeps its place.
C4_ArgvIsFlattenedExpand ==
    \A i \in 1..Len(runs) :
        runs[i].pc # "called" =>
            LET fl == runs[i].at_call
                argv == runs[i].argv
            IN  /\ Len(argv) = 1 + TokenCount(fl, Len(fl))
                /\ argv[1] = TOR
                /\ \A k \in 1..Len(fl) :
                     \A j \in 1..Len(expand(fl[k])) :
                        argv[1 + TokenCount(fl, k - 1) + j] = expand(fl[k])[j]

C4_Witness ==
    \E i \in 1..Len(runs) :
        /\ runs[i].pc = "argv"
        /\ runs[i].at_call = <<ControlPortAuto, DataDirectory(<<"a", " ", "b">>)>>
        /\ Len(runs[i].argv) = 5

\* C6: when a produced token holds a NUL, start fails before the command line is
\* set and before the daemon runs; the daemon is never handed a vector in which
\* a token was dropped or cut, and what it is handed is the produced token
\* sequence, in order and unmodified.
C6_NulIsFatal ==
    \A i \in 1..Len(runs) :
        /\ (\E k \in 1..Len(runs[i].argv) : HasNul(runs[i].argv[k])) =>
              (/\ runs[i].pc \in {"argv", "panicked"}
               /\ ~runs[i].cmdline_set
               /\ ~runs[i].ran)
        /\ runs[i].cmdline_set => runs[i].cmdline = runs[i].argv
        /\ runs[i].ran => runs[i].daemon_argv = runs[i].argv

C6_Witness ==
    \E i, j \in 1..Len(runs) :
        /\ runs[i].pc = "panicked"
        /\ Len(runs[i].argv) > 1
        /\ runs[j].ran
        /\ Len(runs[j].daemon_argv) > 1

\* C8: every step leaves the directive sequence as it is or adds one directive
\* at its end, and no step of start or start_background changes it.
C8_AppendOnly ==
    [][/\ \/ flags' = flags
          \/ \E d \in BuilderFlags : flags' = Append(flags, d)
       /\ runs' # runs => flags' = flags]_vars

C8_Witness ==
    /\ Len(flags) = 2
    /\ flags[1] # flags[2]
    /\ \E i, j \in 1..Len(runs) :
         /\ runs[i].kind = "fg" /\ runs[i].pc = "returned" /\ Len(runs[i].at_call) = 1
         /\ runs[j].kind = "bg" /\ runs[j].pc = "returned"

\* C9: the argument vector of a run launched with start_background is the
\* encoding of the builder's sequence as it was when start_background was
\* called: directives appended later never appear in it, and the builder's
\* sequence still starts with the sequence the run was given.
C9_BackgroundSnapshot ==
    \A i \in 1..Len(runs) :
        runs[i].kind = "bg" =>
            /\ IsPrefix(runs[i].at_call, flags)
            /\ runs[i].pc # "called" =>
                 runs[i].argv = <<TOR>> \o flatten([k \in 1..Len(runs[i].at_call) |->
                                                     expand(runs[i].at_call[k])])
            /\ runs[i].ran =>
                 Len(runs[i].daemon_argv)
                    = 1 + TokenCount(runs[i].at_call, Len(runs[i].at_call))

C9_Witness ==
    \E i \in 1..Len(runs) :
        /\ runs[i].kind = "bg"
        /\ runs[i].ran
        /\ Len(runs[i].at_call) = 1
        /\ Len(flags) = 2

====
